---- MODULE Spec2Model ----
(***************************************************************************)
(* Model of data/ko_dialogue.py: the record validator (MetaData), the      *)
(* metadata scanner (get_metadata_list) and the manifest builder           *)
(* (create_manifest), with the thread pool's fan-out / as_completed fan-in.*)
(***************************************************************************)
EXTENDS Naturals, Integers, Sequences, FiniteSets, Bags, TLC

VARIABLES
    NUM_THREADS,     \* multiprocessing.cpu_count(), fixed for the run
    filter,          \* the filter dict main() builds: attribute -> excluded values
    num_metadata_files, \* len(metadata_files): how many *_metadata.txt glob found
    metadata_files,  \* the lines of the files read so far (file.readlines()), in glob order
    pc,              \* position of the submitting (main) thread
    i,               \* loop variable of get_metadata_list, 1-based
    futures,         \* the futures of the current pool, in submission order
    merged,          \* indices of the futures as_completed has yielded so far
    metadata_list,   \* get_metadata_list's result list
    recordings,      \* create_manifest's recordings list
    supervisions,    \* create_manifest's supervisions list
    manifest,        \* the exported files: "none", or the written pair
    raised,          \* history: some task (or the synchronous call) raised
    data,            \* validator check: the raw line handed to MetaData
    out              \* validator check: the outcome of MetaData(data, g2p, filter)

vars == <<NUM_THREADS, filter, num_metadata_files, metadata_files, pc, i, futures, merged,
          metadata_list, recordings, supervisions, manifest, raised, data, out>>

----------------------------------------------------------------------------
(* Bounds of the model *)

MaxFiles == 2      \* metadata files under the root (pipeline runs)
MaxLines == 2      \* lines per metadata file (pipeline runs)
MaxThreads == 3    \* NUM_THREADS (pipeline runs)
MaxChunkLines == 3 \* lines of the file (single-file scans)
MaxPool == 3       \* NUM_THREADS (single-file scans)

----------------------------------------------------------------------------
(* Inputs: raw metadata lines and the files they point at *)

\* A raw line after line.strip().split(' | '), together with the state of the
\* file system at the path it names:
\*   nfields  number of fields the split produced
\*   intsOk   whether fields 6, 7, 8 parse with int()
\*   path     the audio path (field 0 under DIR_PREFIX), named by the place
\*            <<file, line>> of the metadata line that points at it
\*   sex, age fields 3 and 4
\*   audio    whether the audio file exists
\*   json     "absent", "malformed", or the parsed content of the .json sibling
\*   txt      "absent" or (as a one-element sequence) the content of the .txt sibling
JsonDocs ==
    { [start |-> 0, end |-> 3, length |-> 5, metadata |-> "u1"],
      [start |-> 1, end |-> 2, length |-> 4, metadata |-> "u2"] }

Texts == { <<"k">>, <<" ", "k", " ">> }

JsonStates == { [state |-> "absent"], [state |-> "malformed"] }
                \cup { [state |-> "ok", doc |-> d] : d \in JsonDocs }

TxtStates == { [state |-> "absent"] } \cup { [state |-> "ok", content |-> t] : t \in Texts }

AllLines ==
    [ nfields : {8, 9, 10}, intsOk : BOOLEAN, path : {<<0, 0>>},
      sex : {"M", "F"}, age : {"A", "C"},
      audio : BOOLEAN,
      json : JsonStates, txt : TxtStates ]

\* The filters main() can build from --sex and --age.
Filters ==
    { <<>>,
      [sex |-> {"F"}],
      [age |-> {"C"}],
      [sex |-> {"M"}, age |-> {"C"}] }

----------------------------------------------------------------------------
(* Normalizer (g2pk.G2p) and str.strip *)

G2pRule(ch) == IF ch = "k" THEN "g" ELSE ch

g2p(text) == [k \in 1..Len(text) |-> G2pRule(text[k])]

RECURSIVE lstrip(_)
lstrip(s) == IF s # <<>> /\ Head(s) = " " THEN lstrip(Tail(s)) ELSE s

RECURSIVE rstrip(_)
rstrip(s) == IF s # <<>> /\ s[Len(s)] = " " THEN rstrip(SubSeq(s, 1, Len(s) - 1)) ELSE s

strip(s) == rstrip(lstrip(s))

----------------------------------------------------------------------------
(* MetaData *)

\* __filter__: False as soon as one configured attribute's value is in its list.
filter_inclusive(obj, filt) ==
    \A key \in DOMAIN filt : obj[key] \in filt[key]

\* filter is None only when no filter is passed; main() always passes a dict.
\* The empty dict is modelled as the empty function <<>>.
__filter__(obj, filt) ==
    \A key \in DOMAIN filt : ~(obj[key] \in filt[key])

\* The outcome of one construction: the object's attributes (obj, a record of
\* the attributes assigned so far), whether an exception left the constructor
\* (exc), the files opened for reading (opened), and the statement at which
\* the constructor ended (at).
Outcome(obj, exc, opened, at) == [obj |-> obj, exc |-> exc, opened |-> opened, at |-> at]

MetaData_audio_late(d, filt) ==
    IF d.nfields < 9 THEN Outcome([valid |-> FALSE], TRUE, {}, "fields")
    ELSE IF ~d.intsOk THEN Outcome([valid |-> FALSE], TRUE, {}, "int")
    ELSE
    LET o1 == [valid |-> FALSE, file_path |-> d.path, sex |-> d.sex, age |-> d.age]
    IN  IF ~__filter__(o1, filt) THEN Outcome(o1, FALSE, {}, "filter")
        ELSE IF d.json.state = "absent" THEN Outcome(o1, FALSE, {}, "json")
        ELSE IF d.json.state = "malformed" THEN Outcome(o1, TRUE, {"json"}, "json.load")
        ELSE
        LET o2 == [valid |-> FALSE, file_path |-> d.path, sex |-> d.sex, age |-> d.age,
                   start |-> d.json.doc.start, end |-> d.json.doc.end,
                   length |-> d.json.doc.length, id |-> d.json.doc.metadata]
        IN  IF ~d.audio THEN Outcome(o2, FALSE, {"json"}, "audio")
            ELSE IF d.txt.state = "absent" THEN Outcome(o2, FALSE, {"json"}, "txt")
            ELSE Outcome([o2 EXCEPT !.valid = TRUE] @@ [text |-> g2p(d.txt.content)],
                         FALSE, {"json", "txt"}, "end")

MetaData_raw_text(d, filt) ==
    IF d.nfields < 9 THEN Outcome([valid |-> FALSE], TRUE, {}, "fields")
    ELSE IF ~d.intsOk THEN Outcome([valid |-> FALSE], TRUE, {}, "int")
    ELSE
    LET o1 == [valid |-> FALSE, file_path |-> d.path, sex |-> d.sex, age |-> d.age]
    IN  IF ~d.audio THEN Outcome(o1, FALSE, {}, "audio")
        ELSE IF ~__filter__(o1, filt) THEN Outcome(o1, FALSE, {}, "filter")
        ELSE IF d.json.state = "absent" THEN Outcome(o1, FALSE, {}, "json")
        ELSE IF d.json.state = "malformed" THEN Outcome(o1, TRUE, {"json"}, "json.load")
        ELSE
        LET o2 == [valid |-> FALSE, file_path |-> d.path, sex |-> d.sex, age |-> d.age,
                   start |-> d.json.doc.start, end |-> d.json.doc.end,
                   length |-> d.json.doc.length, id |-> d.json.doc.metadata]
        IN  IF d.txt.state = "absent" THEN Outcome(o2, FALSE, {"json"}, "txt")
            ELSE Outcome([o2 EXCEPT !.valid = TRUE] @@ [text |-> d.txt.content],
                         FALSE, {"json", "txt"}, "end")

\* MetaData.__init__(data, g2p, filter).  Indexing data[3..8] raises IndexError
\* on a line with fewer than nine fields and int() raises ValueError on a
\* non-numeric code, both before any file is looked at; json.load raises on a
\* malformed annotation (a missing key raises KeyError in the same block).
MetaData(d, filt) ==
    IF d.nfields < 9 THEN Outcome([valid |-> FALSE], TRUE, {}, "fields")
    ELSE IF ~d.intsOk THEN Outcome([valid |-> FALSE], TRUE, {}, "int")
    ELSE
    LET o1 == [valid |-> FALSE, file_path |-> d.path, sex |-> d.sex, age |-> d.age]
    IN  IF ~d.audio THEN Outcome(o1, FALSE, {}, "audio")
        ELSE IF ~__filter__(o1, filt) THEN Outcome(o1, FALSE, {}, "filter")
        ELSE IF d.json.state = "absent" THEN Outcome(o1, FALSE, {}, "json")
        ELSE IF d.json.state = "malformed" THEN Outcome(o1, TRUE, {"json"}, "json.load")
        ELSE
        LET o2 == [valid |-> FALSE, file_path |-> d.path, sex |-> d.sex, age |-> d.age,
                   start |-> d.json.doc.start, end |-> d.json.doc.end,
                   length |-> d.json.doc.length, id |-> d.json.doc.metadata]
        IN  IF d.txt.state = "absent" THEN Outcome(o2, FALSE, {"json"}, "txt")
            ELSE Outcome([o2 EXCEPT !.valid = TRUE] @@ [text |-> g2p(d.txt.content)],
                         FALSE, {"json", "txt"}, "end")

----------------------------------------------------------------------------
(* get_metadata_list.task and create_manifest.task *)

RECURSIVE loop_keep_invalid(_, _, _)
loop_keep_invalid(lines, filt, metadata_sub_list) ==
    IF lines = <<>> THEN [exc |-> FALSE, result |-> metadata_sub_list]
    ELSE LET metadata == MetaData(Head(lines), filt)
         IN  IF metadata.exc THEN [exc |-> TRUE, result |-> <<>>]
             ELSE loop_keep_invalid(Tail(lines), filt,
                                    Append(metadata_sub_list, metadata.obj))

RECURSIVE loop_stop_at_invalid(_, _, _)
loop_stop_at_invalid(lines, filt, metadata_sub_list) ==
    IF lines = <<>> THEN [exc |-> FALSE, result |-> metadata_sub_list]
    ELSE LET metadata == MetaData(Head(lines), filt)
         IN  IF metadata.exc THEN [exc |-> TRUE, result |-> <<>>]
             ELSE IF metadata.obj.valid
                  THEN loop_stop_at_invalid(Tail(lines), filt,
                                            Append(metadata_sub_list, metadata.obj))
                  ELSE [exc |-> FALSE, result |-> metadata_sub_list]

RECURSIVE task_loop(_, _, _)
task_loop(lines, filt, metadata_sub_list) ==
    IF lines = <<>> THEN [exc |-> FALSE, result |-> metadata_sub_list]
    ELSE LET metadata == MetaData(Head(lines), filt)
         IN  IF metadata.exc THEN [exc |-> TRUE, result |-> <<>>]
             ELSE task_loop(Tail(lines), filt,
                            IF metadata.obj.valid
                            THEN Append(metadata_sub_list, metadata.obj)
                            ELSE metadata_sub_list)

task_keep_invalid(lines, filt) == loop_keep_invalid(lines, filt, <<>>)

task_stop_at_invalid(lines, filt) == loop_stop_at_invalid(lines, filt, <<>>)

\* task(lines) of get_metadata_list: one G2p per call, one MetaData per line,
\* the valid ones appended in order; an exception of a constructor leaves the task.
task(lines, filt) == task_loop(lines, filt, <<>>)

\* Recording.from_file(path, recording_id=path)
Recording(path) == [id |-> path, source |-> path]

\* SupervisionSegment(id=file_path, recording_id=file_path, start=start,
\*                    duration=end, text=text, language='Korean', custom=...)
SupervisionSegment(metadata) ==
    [id |-> metadata.file_path, recording_id |-> metadata.file_path,
     start |-> metadata.start, duration |-> metadata.end, text |-> metadata.text,
     language |-> "Korean", custom |-> [normalized_text |-> strip(metadata.text)]]

\* task(metadata_sub_list) of create_manifest: the pair of the two list
\* comprehensions.  Recording.from_file raises on an audio file it cannot
\* read: unreadable is the position in the sub-list of the first such file,
\* 0 when every file is readable.
manifest_task(metadata_sub_list, unreadable) ==
    IF unreadable # 0
    THEN [exc |-> TRUE, result |-> <<>>]
    ELSE [exc |-> FALSE,
          result |-> << [k \in 1..Len(metadata_sub_list) |->
                            Recording(metadata_sub_list[k].file_path)],
                        [k \in 1..Len(metadata_sub_list) |->
                            SupervisionSegment(metadata_sub_list[k])] >>]

----------------------------------------------------------------------------
(* Partition into NUM_THREADS contiguous slices *)

\* Python's seq[a:b] with 0 <= a <= b.
Slice(seq, a, b) ==
    LET hi == IF b < Len(seq) THEN b ELSE Len(seq)
    IN  IF a >= hi THEN <<>> ELSE SubSeq(seq, a + 1, hi)

Slices_no_remainder(seq, n) ==
    LET unit_tasks == Len(seq) \div n
    IN  [t \in 1..n |-> Slice(seq, unit_tasks * (t - 1), unit_tasks * t)]

\* [seq[unit*t : unit*(t+1)] for t in range(n-1)] + [seq[unit*(n-1):]]
Slices(seq, n) ==
    LET unit_tasks == Len(seq) \div n
    IN  [t \in 1..n |->
            IF t < n THEN Slice(seq, unit_tasks * (t - 1), unit_tasks * t)
                     ELSE Slice(seq, unit_tasks * (n - 1), Len(seq))]

\* executor.submit(task, arg) for each slice: the futures, all running.
Submit(slices) == [t \in 1..Len(slices) |-> [arg |-> slices[t], state |-> "running",
                                              exc |-> FALSE, result |-> <<>>]]

\* The future of a task that returned r, or raised.
Finished(r, fut) == [arg |-> fut.arg, state |-> "finished", exc |-> r.exc, result |-> r.result]

Running == {t \in 1..Len(futures) : futures[t].state = "running"}

\* The futures as_completed can yield next: finished and not yet yielded.
Ready == {t \in 1..Len(futures) : futures[t].state = "finished"} \ merged

----------------------------------------------------------------------------
(* Initial states *)

GoodLine ==
    [nfields |-> 9, intsOk |-> TRUE, path |-> <<0, 0>>, sex |-> "M", age |-> "A",
     audio |-> TRUE,
     json |-> [state |-> "ok", doc |-> [start |-> 1, end |-> 2, length |-> 4,
                                        metadata |-> "u2"]],
     txt |-> [state |-> "ok", content |-> <<" ", "k", " ">>]]

\* Lines of the corpus of a pipeline run: complete, or with a malformed annotation.
PipeLines ==
    { GoodLine,
      [GoodLine EXCEPT !.json = [state |-> "malformed"]] }

\* Lines of the file of a single-file scan: complete, excluded by the filter,
\* audio / annotation / transcript missing, annotation malformed.
ChunkLines ==
    { GoodLine,
      [GoodLine EXCEPT !.sex = "F"],
      [GoodLine EXCEPT !.audio = FALSE],
      [GoodLine EXCEPT !.json = [state |-> "absent"]],
      [GoodLine EXCEPT !.txt = [state |-> "absent"]],
      [GoodLine EXCEPT !.json = [state |-> "malformed"]] }

FileBodies == UNION { [1..n -> PipeLines] : n \in 0..MaxLines }

ChunkBodies == UNION { [1..n -> ChunkLines] : n \in 0..MaxChunkLines }

\* file.readlines() of the f-th file: each line names its own audio file.
readlines(body, f) == [k \in 1..Len(body) |-> [body[k] EXCEPT !.path = <<f, k>>]]

NoOutcome == Outcome([valid |-> FALSE], FALSE, {}, "new")

Init ==
    /\ NUM_THREADS \in 1..MaxThreads
    /\ filter = [sex |-> {"F"}]
    /\ num_metadata_files \in 0..MaxFiles
    /\ metadata_files = <<>>
    /\ pc = "scan"
    /\ i = 1
    /\ futures = <<>>
    /\ merged = {}
    /\ metadata_list = <<>>
    /\ recordings = <<>>
    /\ supervisions = <<>>
    /\ manifest = "none"
    /\ raised = FALSE
    /\ data = GoodLine
    /\ out = NoOutcome

----------------------------------------------------------------------------
(* get_metadata_list *)

\* metadata_list = task(lines)
SyncAssign(list, result) == result

\* NUM_THREADS == 1: read the file, metadata_list = task(lines)
ScanSyncFrom(bodies) ==
    /\ pc = "scan" /\ i <= num_metadata_files /\ NUM_THREADS = 1
    /\ \E body \in bodies :
         LET lines == readlines(body, i)
             r == task(lines, filter)
         IN  /\ metadata_files' = Append(metadata_files, lines)
             /\ IF r.exc
                THEN /\ pc' = "aborted"
                     /\ raised' = TRUE
                     /\ UNCHANGED <<i, metadata_list>>
                ELSE /\ metadata_list' = SyncAssign(metadata_list, r.result)
                     /\ i' = i + 1
                     /\ UNCHANGED <<pc, raised>>
    /\ UNCHANGED <<NUM_THREADS, filter, num_metadata_files, futures, merged,
                   recordings, supervisions, manifest, data, out>>

\* NUM_THREADS > 1: read the file, open the pool and submit one task per slice
ScanSubmitFrom(bodies) ==
    /\ pc = "scan" /\ i <= num_metadata_files /\ NUM_THREADS > 1
    /\ \E body \in bodies :
         LET lines == readlines(body, i)
         IN  /\ metadata_files' = Append(metadata_files, lines)
             /\ futures' = Submit(Slices(lines, NUM_THREADS))
    /\ merged' = {}
    /\ pc' = "scan_pool"
    /\ UNCHANGED <<NUM_THREADS, filter, num_metadata_files, i, metadata_list,
                   recordings, supervisions, manifest, raised, data, out>>

ScanSync == ScanSyncFrom(FileBodies)

ScanSubmit == ScanSubmitFrom(FileBodies)

ScanTask_shared(t) ==
    /\ pc \in {"scan_pool", "scan_exc"}
    /\ t \in Running
    /\ LET r == task(futures[t].arg, filter)
       IN  /\ futures' = [futures EXCEPT ![t] = Finished(r, @)]
           /\ raised' = (raised \/ r.exc)
           /\ metadata_list' = metadata_list \o r.result
    /\ UNCHANGED <<NUM_THREADS, filter, num_metadata_files, metadata_files, pc, i,
                   merged, recordings, supervisions, manifest, data, out>>

\* a worker thread runs task(lines) to its end
ScanTask(t) ==
    /\ pc \in {"scan_pool", "scan_exc"}
    /\ t \in Running
    /\ LET r == task(futures[t].arg, filter)
       IN  /\ futures' = [futures EXCEPT ![t] = Finished(r, @)]
           /\ raised' = (raised \/ r.exc)
    /\ UNCHANGED <<NUM_THREADS, filter, num_metadata_files, metadata_files, pc, i,
                   merged, metadata_list, recordings, supervisions, manifest, data, out>>

ScanMerge_swallow(t) ==
    /\ pc = "scan_pool"
    /\ t \in Ready
    /\ merged' = merged \cup {t}
    /\ metadata_list' = metadata_list \o futures[t].result
    /\ UNCHANGED <<NUM_THREADS, filter, num_metadata_files, metadata_files, i, futures,
                   pc, recordings, supervisions, manifest, raised, data, out>>

\* one iteration of `for future in as_completed(futures)`:
\* metadata_list.extend(future.result()), or the task's exception re-raised
ScanMerge(t) ==
    /\ pc = "scan_pool"
    /\ t \in Ready
    /\ merged' = merged \cup {t}
    /\ IF futures[t].exc
       THEN pc' = "scan_exc" /\ UNCHANGED metadata_list
       ELSE metadata_list' = metadata_list \o futures[t].result /\ UNCHANGED pc
    /\ UNCHANGED <<NUM_THREADS, filter, num_metadata_files, metadata_files, i, futures,
                   recordings, supervisions, manifest, raised, data, out>>

\* as_completed is exhausted; the with block shuts the pool down; next file
ScanPoolExit ==
    /\ pc = "scan_pool"
    /\ merged = 1..Len(futures)
    /\ futures' = <<>>
    /\ merged' = {}
    /\ i' = i + 1
    /\ pc' = "scan"
    /\ UNCHANGED <<NUM_THREADS, filter, num_metadata_files, metadata_files,
                   metadata_list, recordings, supervisions, manifest, raised, data, out>>

\* the exception leaves the with block: shutdown(wait=True) joins the workers,
\* then the exception leaves get_metadata_list and main
ScanAbort ==
    /\ pc = "scan_exc"
    /\ Running = {}
    /\ pc' = "aborted"
    /\ UNCHANGED <<NUM_THREADS, filter, num_metadata_files, metadata_files, i, futures,
                   merged, metadata_list, recordings, supervisions, manifest, raised,
                   data, out>>

\* the loop over the files is over: return metadata_list; main calls create_manifest
ScanReturn ==
    /\ pc = "scan" /\ i > num_metadata_files
    /\ pc' = "build"
    /\ UNCHANGED <<NUM_THREADS, filter, num_metadata_files, metadata_files, i, futures,
                   merged, metadata_list, recordings, supervisions, manifest, raised,
                   data, out>>

----------------------------------------------------------------------------
(* create_manifest *)

\* NUM_THREADS == 1: recordings, supervisions = task(metadata_list)
BuildSync ==
    /\ pc = "build" /\ NUM_THREADS = 1
    /\ \E unreadable \in 0..Len(metadata_list) :
         LET r == manifest_task(metadata_list, unreadable)
         IN  IF r.exc
             THEN /\ pc' = "aborted"
                  /\ raised' = TRUE
                  /\ UNCHANGED <<recordings, supervisions>>
             ELSE /\ recordings' = r.result[1]
                  /\ supervisions' = r.result[2]
                  /\ pc' = "export"
                  /\ UNCHANGED raised
    /\ UNCHANGED <<NUM_THREADS, filter, num_metadata_files, metadata_files, i, futures,
                   merged, metadata_list, manifest, data, out>>

BuildSubmit ==
    /\ pc = "build" /\ NUM_THREADS > 1
    /\ futures' = Submit(Slices(metadata_list, NUM_THREADS))
    /\ merged' = {}
    /\ pc' = "build_pool"
    /\ UNCHANGED <<NUM_THREADS, filter, num_metadata_files, metadata_files, i,
                   metadata_list, recordings, supervisions, manifest, raised, data, out>>

BuildTask(t) ==
    /\ pc \in {"build_pool", "build_exc"}
    /\ t \in Running
    /\ \E unreadable \in 0..Len(futures[t].arg) :
         LET r == manifest_task(futures[t].arg, unreadable)
         IN  /\ futures' = [futures EXCEPT ![t] = Finished(r, @)]
             /\ raised' = (raised \/ r.exc)
    /\ UNCHANGED <<NUM_THREADS, filter, num_metadata_files, metadata_files, pc, i,
                   merged, metadata_list, recordings, supervisions, manifest, data, out>>

ExtendBoth_front(recs, sups, result) == <<recs \o result[1], result[2] \o sups>>

\* recordings.extend(sub_recordings); supervisions.extend(sub_supervisions)
ExtendBoth(recs, sups, result) == <<recs \o result[1], sups \o result[2]>>

\* one iteration of the as_completed loop: both lists extended from one result
BuildMerge(t) ==
    /\ pc = "build_pool"
    /\ t \in Ready
    /\ merged' = merged \cup {t}
    /\ IF futures[t].exc
       THEN pc' = "build_exc" /\ UNCHANGED <<recordings, supervisions>>
       ELSE /\ recordings' = ExtendBoth(recordings, supervisions, futures[t].result)[1]
            /\ supervisions' = ExtendBoth(recordings, supervisions, futures[t].result)[2]
            /\ UNCHANGED pc
    /\ UNCHANGED <<NUM_THREADS, filter, num_metadata_files, metadata_files, i, futures,
                   metadata_list, manifest, raised, data, out>>

BuildPoolExit ==
    /\ pc = "build_pool"
    /\ merged = 1..Len(futures)
    /\ pc' = "export"
    /\ UNCHANGED <<NUM_THREADS, filter, num_metadata_files, metadata_files, i, futures,
                   merged, metadata_list, recordings, supervisions, manifest, raised,
                   data, out>>

BuildAbort ==
    /\ pc = "build_exc"
    /\ Running = {}
    /\ pc' = "aborted"
    /\ UNCHANGED <<NUM_THREADS, filter, num_metadata_files, metadata_files, i, futures,
                   merged, metadata_list, recordings, supervisions, manifest, raised,
                   data, out>>

\* RecordingSet.from_recordings / SupervisionSet.from_segments and the two to_jsonl
Export ==
    /\ pc = "export"
    /\ manifest' = [recordings |-> recordings, supervisions |-> supervisions]
    /\ pc' = "done"
    /\ UNCHANGED <<NUM_THREADS, filter, num_metadata_files, metadata_files, i, futures,
                   merged, metadata_list, recordings, supervisions, raised, data, out>>

Next ==
    \/ ScanSync
    \/ ScanSubmit
    \/ \E t \in 1..Len(futures) : ScanTask(t)
    \/ \E t \in 1..Len(futures) : ScanMerge(t)
    \/ ScanPoolExit
    \/ ScanAbort
    \/ ScanReturn
    \/ BuildSync
    \/ BuildSubmit
    \/ \E t \in 1..Len(futures) : BuildTask(t)
    \/ \E t \in 1..Len(futures) : BuildMerge(t)
    \/ BuildPoolExit
    \/ BuildAbort
    \/ Export

Spec == Init /\ [][Next]_vars

----------------------------------------------------------------------------
(* The scan of one metadata file by a pool of at least two threads *)

InitP ==
    /\ NUM_THREADS \in 2..MaxPool
    /\ filter = [sex |-> {"F"}]
    /\ num_metadata_files = 1
    /\ metadata_files = <<>>
    /\ pc = "scan"
    /\ i = 1
    /\ futures = <<>>
    /\ merged = {}
    /\ metadata_list = <<>>
    /\ recordings = <<>>
    /\ supervisions = <<>>
    /\ manifest = "none"
    /\ raised = FALSE
    /\ data = GoodLine
    /\ out = NoOutcome

ScanSubmitP == ScanSubmitFrom(ChunkBodies)

NextP ==
    \/ ScanSubmitP
    \/ \E t \in 1..Len(futures) : ScanTask(t)
    \/ \E t \in 1..Len(futures) : ScanMerge(t)
    \/ ScanPoolExit
    \/ ScanAbort
    \/ ScanReturn

SpecP == InitP /\ [][NextP]_vars

----------------------------------------------------------------------------
(* The validator on its own: every raw line against every filter *)

InitV ==
    /\ data \in AllLines
    /\ filter \in Filters
    /\ out = NoOutcome
    /\ NUM_THREADS = 1
    /\ num_metadata_files = 0
    /\ metadata_files = <<>>
    /\ pc = "validate"
    /\ i = 1
    /\ futures = <<>>
    /\ merged = {}
    /\ metadata_list = <<>>
    /\ recordings = <<>>
    /\ supervisions = <<>>
    /\ manifest = "none"
    /\ raised = FALSE

\* metadata = MetaData(line.strip().split(' | '), g2p, filter)
Validate ==
    /\ pc = "validate"
    /\ out' = MetaData(data, filter)
    /\ pc' = "validated"
    /\ UNCHANGED <<NUM_THREADS, filter, num_metadata_files, metadata_files, i, futures,
                   merged, metadata_list, recordings, supervisions, manifest, raised,
                   data>>

NextV == Validate

SpecV == InitV /\ [][NextV]_vars

----------------------------------------------------------------------------
(* Vocabulary of the properties *)

Range(s) == {s[k] : k \in 1..Len(s)}

\* The bag of the elements of a sequence.
SeqBag(s) == [x \in Range(s) |-> Cardinality({k \in 1..Len(s) : s[k] = x})]

RECURSIVE Flatten(_)
Flatten(ss) == IF ss = <<>> THEN <<>> ELSE Head(ss) \o Flatten(Tail(ss))

\* Properties of a raw line, stated on the line and the files it points at.
WellFormed(d) == d.nfields >= 9 /\ d.intsOk

Excluded(d, filt) == \E key \in DOMAIN filt : d[key] \in filt[key]

Complete(d, filt) ==
    /\ WellFormed(d) /\ d.audio /\ ~Excluded(d, filt)
    /\ d.json.state = "ok" /\ d.txt.state = "ok"

MissingSibling(d, filt) ==
    /\ WellFormed(d) /\ d.audio /\ ~Excluded(d, filt)
    /\ \/ d.json.state = "absent"
       \/ d.json.state = "ok" /\ d.txt.state = "absent"

StopsEarly(d, filt) ==
    /\ WellFormed(d)
    /\ \/ ~d.audio
       \/ Excluded(d, filt)
       \/ d.json.state = "absent"
       \/ d.json.state = "ok" /\ d.txt.state = "absent"

Fatal(d, filt) ==
    \/ ~WellFormed(d)
    \/ d.audio /\ ~Excluded(d, filt) /\ d.json.state = "malformed"

Populated(r) == r.valid /\ {"start", "end", "length", "id", "text"} \subseteq DOMAIN r

FuturesOf == 1..Len(futures)

\* Every list of records a task returned or the scanner holds.
ResultLists == {metadata_list} \cup {futures[t].result : t \in FuturesOf}

\* The valid records of all the files read, file by file.
ExpectedRecords ==
    Flatten([f \in 1..Len(metadata_files) |-> task(metadata_files[f], filter).result])

\* How many records the merged futures of the pool carried.
RECURSIVE MergedCount(_)
MergedCount(n) ==
    IF n = 0 THEN 0
    ELSE MergedCount(n - 1)
         + (IF n \in merged /\ ~futures[n].exc THEN Len(futures[n].arg) ELSE 0)

Shared == <<metadata_list, recordings, supervisions>>

----------------------------------------------------------------------------
(* Properties *)

\* C1: when get_metadata_list returns, the list holds the valid records of
\* every file read, each exactly once, whatever NUM_THREADS is.
C1_AllFilesCollected ==
    pc = "build" => SeqBag(metadata_list) = SeqBag(ExpectedRecords)

\* C2: for one file and NUM_THREADS >= 2 the slices hold every line exactly
\* once (their concatenation is the file), and once all futures are merged
\* the list holds the same records as one sequential task over the whole
\* file, up to order; a task fails exactly when the sequential task would.
C2_SlicedScanEqualsSequential ==
    pc \in {"scan_pool", "scan_exc"} =>
        LET lines == metadata_files[i]
            whole == task(lines, filter)
        IN  /\ Len(futures) = NUM_THREADS
            /\ Flatten([t \in FuturesOf |-> futures[t].arg]) = lines
            /\ (Running = {} => ((\E t \in FuturesOf : futures[t].exc) <=> whole.exc))
            /\ ((pc = "scan_pool" /\ merged = FuturesOf) =>
                    (~whole.exc /\ SeqBag(metadata_list) = SeqBag(whole.result)))

C2_Witness ==
    /\ pc = "scan_pool" /\ merged = FuturesOf
    /\ NUM_THREADS = 2 /\ Len(metadata_files[1]) = 3
    /\ Len(metadata_list) = 2
    /\ metadata_list[1].file_path = <<1, 3>>
    /\ metadata_list[2].file_path = <<1, 1>>

\* C3: during and after the merge of create_manifest the two lists have the
\* same length, the number of records merged so far (at the end the number
\* of input records); entries at one position come from one record, and
\* every supervision's recording_id is the id of a recording in the list.
C3_ManifestAligned ==
    /\ Len(recordings) = Len(supervisions)
    /\ \A k \in 1..Len(supervisions) :
         /\ k <= Len(recordings)
         /\ supervisions[k].recording_id = recordings[k].id
         /\ supervisions[k].id = recordings[k].id
         /\ \E j \in 1..Len(recordings) : recordings[j].id = supervisions[k].recording_id
         /\ \E m \in 1..Len(metadata_list) :
              /\ metadata_list[m].file_path = recordings[k].id
              /\ metadata_list[m].start = supervisions[k].start
              /\ metadata_list[m].text = supervisions[k].text
    /\ (pc \in {"build_pool", "build_exc"} => Len(recordings) = MergedCount(Len(futures)))
    /\ (pc \in {"export", "done"} =>
            /\ Len(recordings) = Len(metadata_list)
            /\ SeqBag([k \in 1..Len(recordings) |-> recordings[k].id])
                 = SeqBag([k \in 1..Len(metadata_list) |-> metadata_list[k].file_path]))

C3_Witness ==
    /\ pc = "done" /\ NUM_THREADS > 1
    /\ Len(manifest.recordings) >= 3
    /\ manifest.recordings[1].id # metadata_list[1].file_path

\* C4: every record in a result list is valid with start, end, length, id and
\* text set; a line whose construction stops early (audio missing, excluded,
\* annotation missing, transcript missing after the annotation was read)
\* gives an object with valid = false that is in no result list.
C4_OnlyCompleteRecords ==
    /\ \A l \in ResultLists : \A k \in 1..Len(l) : Populated(l[k])
    /\ \A f \in 1..Len(metadata_files) : \A k \in 1..Len(metadata_files[f]) :
         LET d == metadata_files[f][k]
         IN  StopsEarly(d, filter) =>
                /\ ~MetaData(d, filter).obj.valid
                /\ \A l \in ResultLists : \A j \in 1..Len(l) : l[j].file_path # d.path

C4_Witness ==
    /\ pc = "build" /\ metadata_list # <<>>
    /\ \E k \in 1..Len(metadata_files[1]) :
         /\ metadata_files[1][k].txt.state = "absent"
         /\ "start" \in DOMAIN MetaData(metadata_files[1][k], filter).obj

\* C5: a line with a value in the excluded set of a configured attribute
\* never yields a valid record, whatever files exist; a line with no excluded
\* value is never stopped by the filter step.
C5_ExclusionFilter ==
    pc = "validated" =>
        /\ (Excluded(data, filter) => ~out.obj.valid)
        /\ (~Excluded(data, filter) => out.at # "filter")

C5_Witness ==
    /\ pc = "validated" /\ Excluded(data, filter)
    /\ Complete(data, <<>>)
    /\ out.at = "filter" /\ ~out.exc

\* C6 as claimed: a line whose audio file does not exist yields no record,
\* without an error and without reading the siblings, whatever its fields hold.
C6_MissingAudioAnyFields ==
    (pc = "validated" /\ ~data.audio) =>
        (~out.exc /\ ~out.obj.valid /\ out.opened = {})

\* C6: a line with at least nine fields and numeric dialect, reference and
\* quality codes whose audio file does not exist yields no record, without
\* an error, and neither sibling is read.
C6_MissingAudioWellFormed ==
    (pc = "validated" /\ ~data.audio /\ WellFormed(data)) =>
        (~out.exc /\ ~out.obj.valid /\ out.opened = {} /\ out.at = "audio")

C6_Witness ==
    /\ pc = "validated" /\ ~data.audio /\ WellFormed(data)
    /\ data.json.state = "malformed" /\ data.txt.state = "ok"
    /\ ~out.exc /\ out.at = "audio"

\* C7 as claimed: a line whose audio, annotation and transcript files exist
\* yields a valid record with the normalized text and the annotation's values.
C7_SiblingsExistYieldsRecord ==
    (pc = "validated" /\ data.audio /\ data.json.state # "absent"
        /\ data.txt.state = "ok") =>
        /\ ~out.exc
        /\ out.obj.valid
        /\ out.obj.text = g2p(data.txt.content)
        /\ out.obj.start = data.json.doc.start
        /\ out.obj.end = data.json.doc.end
        /\ out.obj.length = data.json.doc.length
        /\ out.obj.id = data.json.doc.metadata

\* C7: a well-formed line no filter entry excludes, whose audio file exists,
\* whose annotation parses and whose transcript exists, yields a valid record
\* with text = normalize(transcript), start, end, length from the annotation
\* and id = the annotation's 'metadata'.
C7_CompleteLineYieldsRecord ==
    (pc = "validated" /\ Complete(data, filter)) =>
        /\ ~out.exc
        /\ out.obj.valid
        /\ out.obj.text = g2p(data.txt.content)
        /\ out.obj.start = data.json.doc.start
        /\ out.obj.end = data.json.doc.end
        /\ out.obj.length = data.json.doc.length
        /\ out.obj.id = data.json.doc.metadata

C7_Witness ==
    /\ pc = "validated" /\ Complete(data, filter)
    /\ DOMAIN filter = {"sex", "age"}
    /\ data.txt.content = <<" ", "k", " ">>
    /\ out.obj.valid /\ out.obj.text = <<" ", "g", " ">>

\* C8 as claimed: no result is merged into a shared list while a task of the
\* pool is still running.
C8_MergeAfterAllFinish ==
    (\E t \in merged : ~futures[t].exc) => Running = {}

\* C8: a shared list changes only in a step of the submitting thread that
\* leaves every future as it is; with a pool, the step yields one finished,
\* not yet yielded future and extends the list(s) by exactly its result.
C8_ExtendOnlyFromFinished ==
    [][ Shared' # Shared =>
          /\ futures' = futures
          /\ (NUM_THREADS > 1 =>
                \E t \in Ready :
                   /\ ~futures[t].exc
                   /\ merged' = merged \cup {t}
                   /\ \/ /\ pc = "scan_pool"
                         /\ metadata_list' = metadata_list \o futures[t].result
                         /\ UNCHANGED <<recordings, supervisions>>
                      \/ /\ pc = "build_pool"
                         /\ recordings' = recordings \o futures[t].result[1]
                         /\ supervisions' = supervisions \o futures[t].result[2]
                         /\ UNCHANGED metadata_list) ]_vars

C8_Witness ==
    /\ pc = "scan_pool" /\ i = 1
    /\ Running # {}
    /\ metadata_list # <<>>

C10_SkipKeepsLaterLines ==
    \A t \in FuturesOf :
        (futures[t].state = "finished"
            /\ \A k \in 1..Len(futures[t].arg) : ~Fatal(futures[t].arg[k], filter)) =>
            /\ ~futures[t].exc
            /\ \A j, k \in 1..Len(futures[t].arg) :
                 (j < k /\ MissingSibling(futures[t].arg[j], filter)
                        /\ Complete(futures[t].arg[k], filter)) =>
                    \E m \in 1..Len(futures[t].result) :
                        futures[t].result[m].file_path = futures[t].arg[k].path

C10_Witness ==
    \E t \in FuturesOf :
        /\ futures[t].state = "finished" /\ ~futures[t].exc
        /\ Len(futures[t].arg) = 2
        /\ futures[t].arg[1].json.state = "ok"
        /\ futures[t].arg[1].txt.state = "absent"
        /\ Complete(futures[t].arg[2], filter)
        /\ futures[t].result = <<MetaData(futures[t].arg[2], filter).obj>>

====
